---- MODULE Spec2Model ----
(***************************************************************************)
(* msgpack-dump: a MessagePack stream decoder / pretty printer.            *)
(*                                                                         *)
(* The program is one recursive function, dump, over a shared cursor       *)
(* (struct ctx).  The model is the program's control-flow graph: pc is the *)
(* position in the code, stack holds the dump_array / dump_map activation  *)
(* records (the only recursion of the program), rd is the eread request in *)
(* progress, and every read(2) system call is one step.                    *)
(*                                                                         *)
(* 64-bit quantities (uint64_t n of read_varint) are sequences of 8 bytes, *)
(* most significant first.  The standard output is a sequence of tokens    *)
(* [fmt, args]: fmt is the printf format of the call, args the rendered    *)
(* argument (bytes of a string, hex digits of a byte, the integer printed).*)
(***************************************************************************)
EXTENDS Integers, Sequences, FiniteSets, TLC

VARIABLES
  stream,      \* the bytes of the input file (fixed during a run)
  charSigned,  \* the build: whether plain char is a signed type
  littleEndian,\* the build: whether the host stores the least significant byte first
  pos,         \* file position of fd: bytes the source has delivered
  offset,      \* ctx->offset
  eof,         \* ctx->eof
  indent,      \* ctx->indent
  out,         \* standard output, a sequence of tokens
  stack,       \* activation records of dump_array / dump_map
  pc,          \* position in the code
  role,        \* parameter role of the running dump call
  fst,         \* local fst of the running dump call
  rd,          \* the eread call in progress: sz, done, buf, st
  vi,          \* locals of read_varint: n, cb, lenlen, sign, byte
  len,         \* parameter len of dump_data / dump_ext
  dret,        \* value returned by the last dump_data call
  retval,      \* value returned by the last dump call
  status,      \* "running", "exit0", "exit1"
  errs,        \* number of read(2) calls that returned an error
  allocFails,  \* number of malloc calls that returned NULL
  tops         \* offsets of the tags of the top-level values decoded so far

vars == <<stream, charSigned, littleEndian, pos, offset, eof, indent, out, stack, pc, role,
          fst, rd, vi, len, dret, retval, status, errs, allocFails, tops>>

(***************************************************************************)
(* Bounds of the model.                                                    *)
(***************************************************************************)
MaxLen == 3          \* longest stream of the exhaustive family
MaxErrs == 1         \* read(2) errors per run
MaxAllocFails == 1   \* malloc failures per run

(***************************************************************************)
(* Program constants.                                                      *)
(***************************************************************************)
ROLE_NONE == -1
ROLE_MAP_KEY == -2
ROLE_MAP_VALUE == -3
TAB == 3

\* Largest size_t / unsigned value the model represents exactly; larger
\* values saturate here (no stream of the model is that long).
SizeCap == 2147483646 + 1

Min(a, b) == IF a < b THEN a ELSE b

(***************************************************************************)
(* Bit operations of C on non-negative integers.                           *)
(***************************************************************************)
RECURSIVE BitAnd(_, _)
BitAnd(a, b) ==
  IF a = 0 \/ b = 0 THEN 0
  ELSE (a % 2) * (b % 2) + 2 * BitAnd(a \div 2, b \div 2)

RECURSIVE BitOr(_, _)
BitOr(a, b) ==
  IF a = 0 THEN b
  ELSE IF b = 0 THEN a
  ELSE (IF (a % 2) + (b % 2) > 0 THEN 1 ELSE 0) + 2 * BitOr(a \div 2, b \div 2)

\* uint64_t as 8 bytes, most significant first
Zero64 == <<0, 0, 0, 0, 0, 0, 0, 0>>

\* n <<= 8
Shl8(n) == SubSeq(n, 2, 8) \o <<0>>

\* n |= byte
OrByte(n, b) == [n EXCEPT ![8] = BitOr(@, b)]

\* a | b on uint64_t
Or64(a, b) ==
  <<BitOr(a[1], b[1]), BitOr(a[2], b[2]), BitOr(a[3], b[3]), BitOr(a[4], b[4]),
    BitOr(a[5], b[5]), BitOr(a[6], b[6]), BitOr(a[7], b[7]), BitOr(a[8], b[8])>>

\* byte k (1 = most significant) of ~0ULL << sh, for 0 <= sh < 64
ShlOnesByte(sh, k) ==
  LET lo == 8 * (8 - k) IN
  IF sh <= lo THEN 255
  ELSE IF sh >= lo + 8 THEN 0
  ELSE 256 - 2^(sh - lo)

\* ~0ULL << sh
ShlOnes(sh) ==
  <<ShlOnesByte(sh, 1), ShlOnesByte(sh, 2), ShlOnesByte(sh, 3), ShlOnesByte(sh, 4),
    ShlOnesByte(sh, 5), ShlOnesByte(sh, 6), ShlOnesByte(sh, 7), ShlOnesByte(sh, 8)>>

\* read_varint, lines 120-123: the sign extension applied to *n after the
\* loop; byte is the last byte read.
SignExtend(n, lenlen, sign, byte) ==
  IF sign /\ byte >= 128 THEN Or64(n, ShlOnes(lenlen)) ELSE n

\* uint64_t -> size_t / the unsigned loop bound, saturating at SizeCap
U64ToNat(n) ==
  IF n[1] = 0 /\ n[2] = 0 /\ n[3] = 0 /\ n[4] = 0 /\ n[5] < 128
  THEN ((n[5] * 256 + n[6]) * 256 + n[7]) * 256 + n[8]
  ELSE SizeCap

(***************************************************************************)
(* The dispatcher of dump, lines 270-340: the first matching branch of the *)
(* if / else-if chain, with the argument it passes to the decoder: the     *)
(* width of an integer, float or length field, or the in-tag length/count. *)
(***************************************************************************)
Branch(k, a) == [kind |-> k, arg |-> a]

\* lines 275-340
DispatchRest(t) ==
  IF t = \hcc THEN Branch("uint", 1)
  ELSE IF t = \hcd THEN Branch("uint", 2)
  ELSE IF t = \hce THEN Branch("uint", 4)
  ELSE IF t = \hcf THEN Branch("uint", 8)
  ELSE IF t = \hd0 THEN Branch("int", 1)
  ELSE IF t = \hd1 THEN Branch("int", 2)
  ELSE IF t = \hd2 THEN Branch("int", 4)
  ELSE IF t = \hd3 THEN Branch("int", 8)
  ELSE IF t = \hca THEN Branch("float", 4)
  ELSE IF t = \hcb THEN Branch("float", 8)
  ELSE IF BitAnd(t, \he0) = \ha0 THEN Branch("fixstr", BitAnd(t, \h1f))
  ELSE IF t = \hd9 THEN Branch("str", 1)
  ELSE IF t = \hda THEN Branch("str", 2)
  ELSE IF t = \hdb THEN Branch("str", 4)
  ELSE IF t = \hc4 THEN Branch("bin", 1)
  ELSE IF t = \hc5 THEN Branch("bin", 2)
  ELSE IF t = \hc6 THEN Branch("bin", 4)
  ELSE IF BitAnd(t, \hf0) = \h90 THEN Branch("fixarray", BitAnd(t, \h0f))
  ELSE IF t = \hdc THEN Branch("array", 2)
  ELSE IF t = \hdd THEN Branch("array", 4)
  ELSE IF BitAnd(t, \hf0) = \h80 THEN Branch("fixmap", BitAnd(t, \h0f))
  ELSE IF t = \hde THEN Branch("map", 2)
  ELSE IF t = \hdf THEN Branch("map", 4)
  ELSE IF t = \hd4 THEN Branch("fixext", 1)
  ELSE IF t = \hd5 THEN Branch("fixext", 2)
  ELSE IF t = \hd6 THEN Branch("fixext", 4)
  ELSE IF t = \hd7 THEN Branch("fixext", 8)
  ELSE IF t = \hd8 THEN Branch("fixext", 16)
  ELSE IF t = \hc7 THEN Branch("ext", 1)
  ELSE IF t = \hc8 THEN Branch("ext", 2)
  ELSE IF t = \hc9 THEN Branch("ext", 4)
  ELSE Branch("bad", 0)

\* the dispatcher with the negative-fixint mask one bit too short (0xc0 for
\* 0xe0): it captures every tag from 0xc1 up before its own branch
DispatchLooseMask(t) ==
  IF t = \hc0 THEN Branch("nil", 0)
  ELSE IF t = \hc2 THEN Branch("false", 0)
  ELSE IF t = \hc3 THEN Branch("true", 0)
  ELSE IF BitAnd(t, \h80) = 0 THEN Branch("fixpos", 0)
  ELSE IF BitAnd(t, \hc0) = \hc0 THEN Branch("fixneg", 0)
  ELSE DispatchRest(t)

\* lines 270-274, then the rest of the chain
Dispatch(t) ==
  IF t = \hc0 THEN Branch("nil", 0)
  ELSE IF t = \hc2 THEN Branch("false", 0)
  ELSE IF t = \hc3 THEN Branch("true", 0)
  ELSE IF BitAnd(t, \h80) = 0 THEN Branch("fixpos", 0)
  ELSE IF BitAnd(t, \he0) = \he0 THEN Branch("fixneg", 0)
  ELSE DispatchRest(t)

\* the is_str argument the dispatcher passes to dump_data / dump_data_var
IsStr(t) == Dispatch(t).kind \in {"fixstr", "str"}

\* the callers that go through dump_ext
IsExt(t) == Dispatch(t).kind \in {"fixext", "ext"}

(***************************************************************************)
(* Output.                                                                 *)
(***************************************************************************)
Tok(f, a) == [fmt |-> f, args |-> a]

\* dump_indent: one printf(" ") per column
Spaces(n) == [i \in 1..n |-> Tok(" ", <<>>)]
DumpIndent(ind) == Spaces(ind * TAB)

DumpStart(ind, r) ==
  (IF r # ROLE_MAP_VALUE THEN DumpIndent(ind) ELSE <<>>)
  \o (IF r >= 0 THEN <<Tok("[%d]: ", <<r>>)>> ELSE <<>>)

DumpStop(r) ==
  IF r = ROLE_MAP_KEY THEN <<Tok(": ", <<>>)>> ELSE <<Tok("\n", <<>>)>>

\* dump_int(ctx, fst): fst is an unsigned char, promoted to int
DumpInt(t) == <<Tok("%d", <<t>>)>>

\* the body printed for a tag that is decoded from the tag alone
Literal(t) ==
  LET k == Dispatch(t).kind IN
  IF k = "nil" THEN <<Tok("()", <<>>)>>
  ELSE IF k = "false" THEN <<Tok("false", <<>>)>>
  ELSE IF k = "true" THEN <<Tok("true", <<>>)>>
  ELSE DumpInt(t)

\* dump_varint, lines 136-140: the 64-bit pattern printed, signed or unsigned
DumpVarintTok(n, sign) ==
  <<Tok(IF sign THEN "%PRId64" ELSE "%PRIu64", n)>>

\* printf("\"%.*s\"", (int)len, data): at most len bytes, up to the first NUL
RECURSIVE UpToNul(_)
UpToNul(data) ==
  IF data = <<>> \/ Head(data) = 0 THEN <<>>
  ELSE <<Head(data)>> \o UpToNul(Tail(data))

StrPrinted(data, l) == UpToNul(SubSeq(data, 1, Min(l, Len(data))))

\* data[n] read through char *data and promoted to int
CharValue(b, signed) == IF signed /\ b >= 128 THEN b - 256 ELSE b

\* the digits "%02x" prints for the int c, converted to unsigned int
HexDigits(c) ==
  IF c >= 0 THEN <<c \div 16, c % 16>>
  ELSE <<15, 15, 15, 15, 15, 15, (c + 256) \div 16, (c + 256) % 16>>

\* dump_data, lines 188-190
RECURSIVE HexDump(_, _, _)
HexDump(data, n, signed) ==
  IF n > Len(data) THEN <<>>
  ELSE (IF n > 1 THEN <<Tok(" ", <<>>)>> ELSE <<>>)
       \o <<Tok("%02x", HexDigits(CharValue(data[n], signed)))>>
       \o HexDump(data, n + 1, signed)

\* dump_data, lines 185-191
DataPrinted(data, l, isstr, signed) ==
  IF isstr THEN <<Tok("\"%.*s\"", StrPrinted(data, l))>>
  ELSE HexDump(data, 1, signed)

(***************************************************************************)
(* eread.                                                                  *)
(***************************************************************************)
NoRead == [sz |-> 0, done |-> 0, buf |-> <<>>, st |-> "idle"]

\* eread reading the source whatever the flag says
AtEofUnchecked(e) == FALSE

\* line 68: if (ctx->eof) return false
AtEof(e) == e

\* eread returning after the first read that delivers bytes
ReadLoopOnce(done, sz) == IF done > 0 \/ sz = 0 THEN "ok" ELSE "busy"

\* line 71: while (done < sz)
ReadLoop(done, sz) == IF done < sz THEN "busy" ELSE "ok"

\* the cursor counting read calls
OffsetPerCall(off, ret) == off + 1

\* line 81: ctx->offset += ret
OffsetAfterRead(off, ret) == off + ret

\* eread, lines 68-71: entry of a call for sz bytes
EreadCall(sz) ==
  [sz |-> sz, done |-> 0, buf |-> <<>>,
   st |-> IF AtEof(eof) THEN "fail" ELSE ReadLoop(0, sz)]

(***************************************************************************)
(* Input streams.                                                          *)
(***************************************************************************)
\* positive fixints 0 and 1, fixmap 1, fixarray 2, fixstr 1, the
\* unassigned tag, bin 8 and fixext 1
Alphabet == {\h00, \h01, \h81, \h92, \ha1, \hc1, \hc4, \hd4}

\* every stream over Alphabet of at most MaxLen bytes
ShortStreams == UNION {[1..k -> Alphabet] : k \in 0..MaxLen}

\* every tag alone
TagStreams == {<<t>> : t \in 0..255}

\* the fixed-width integers: tag, then hi, mid ... mid, lo
SignBytes == {\h00, \h7f, \h80, \hff}
IntWidths == {1, 2, 4, 8}
Log2(w) == IF w = 1 THEN 0 ELSE IF w = 2 THEN 1 ELSE IF w = 4 THEN 2 ELSE 3
IntPayload(w, hi, mid, lo) ==
  [i \in 1..w |-> IF i = 1 THEN hi ELSE IF i = w THEN lo ELSE mid]
IntStreams ==
  {<<base + Log2(w)>> \o IntPayload(w, hi, mid, lo) :
     base \in {\hcc, \hd0}, w \in IntWidths,
     hi \in SignBytes, mid \in SignBytes, lo \in SignBytes}

\* one complete encoding of each remaining kind, and nested containers
Samples ==
  { <<\hd9, 2, \h61, \h62>>,
    <<\hda, 0, 1, \h61>>,
    <<\hdb, 0, 0, 0, 1, \h00>>,
    <<\hc5, 0, 1, \h80>>,
    <<\hc6, 0, 0, 0, 2, \h0a, \hff>>,
    <<\hdc, 0, 2, 1, 2>>,
    <<\hdd, 0, 0, 0, 1, \hc0>>,
    <<\hde, 0, 1, \ha1, \h61, \hc3>>,
    <<\hdf, 0, 0, 0, 1, 1, 2>>,
    <<\hc7, 2, 5, \h00, \h80>>,
    <<\hc8, 0, 1, 7, \hff>>,
    <<\hc9, 0, 0, 0, 1, 9, \h7f>>,
    <<\hd5, 1, \h0a, \h0b>>,
    <<\hd6, 1, 1, 2, 3, 4>>,
    <<\hd7, 1, 1, 2, 3, 4, 5, 6, 7, 8>>,
    <<\hd8, 1, 1, 2, 3, 4, 5, 6, 7, 8, 9, 10, 11, 12, 13, 14, 15, 16>>,
    <<\hca, \h3f, \h80, 0, 0>>,
    <<\hcb, \h3f, \hf0, 0, 0, 0, 0, 0, 0>>,
    <<\h92, \h81, \ha1, \h61, \h01, \hc3>>,
    <<\hd4, 1, \h80, \hc2>>,
    <<\ha2, \h61, \h00, \hff>>,
    <<\ha4, \h61, \h62, \h63, \h64>>,
    <<\h01, \h02>>,
    <<\h90, \h80, \ha0>> }

Prefixes(s) == {SubSeq(s, 1, k) : k \in 0..Len(s)}
SampleStreams == UNION {Prefixes(s) : s \in Samples}

Streams == ShortStreams \cup TagStreams \cup IntStreams \cup SampleStreams

\* the byte orders of the hosts a stream is run on: both for a stream that
\* holds a float tag, one otherwise (lines 158 and 167 are the only code
\* whose result depends on the byte order, and they follow a float tag)
ByteOrders(s) ==
  IF \E i \in 1..Len(s) : s[i] \in {\hca, \hcb} THEN BOOLEAN ELSE {TRUE}

(***************************************************************************)
(* Initial state: ctx_ctor, then the top of the loop of main.              *)
(***************************************************************************)
\* line 265: the local fst of a dump call that has not read its tag
NoTag == -1

Init ==
  /\ stream \in Streams
  /\ charSigned \in BOOLEAN
  /\ littleEndian \in ByteOrders(stream)
  /\ pos = 0
  /\ offset = 0
  /\ eof = FALSE
  /\ indent = 0
  /\ out = <<>>
  /\ stack = <<>>
  /\ pc = "main"
  /\ role = ROLE_NONE
  /\ fst = NoTag
  /\ rd = NoRead
  /\ vi = [n |-> Zero64, cb |-> 0, lenlen |-> 0, sign |-> FALSE, byte |-> 0]
  /\ len = 0
  /\ dret = TRUE
  /\ retval = TRUE
  /\ status = "running"
  /\ errs = 0
  /\ allocFails = 0
  /\ tops = <<>>

(***************************************************************************)
(* main, lines 369-373.                                                    *)
(***************************************************************************)
\* while (! ctx.eof): leave the loop, or call dump(&ctx, ROLE_NONE)
MainLoop ==
  /\ pc = "main"
  /\ IF eof
     THEN /\ status' = "exit0"
          /\ pc' = "done"
          /\ UNCHANGED <<role, fst, rd>>
     ELSE /\ pc' = "dump"
          /\ role' = ROLE_NONE
          /\ fst' = NoTag
          /\ rd' = EreadCall(1)
          /\ UNCHANGED status
  /\ UNCHANGED <<stream, charSigned, littleEndian, pos, offset, eof, indent, out, stack, vi,
                 len, dret, retval, errs, allocFails, tops>>

(***************************************************************************)
(* eread, lines 71-83: one read(2) call per step.                          *)
(***************************************************************************)
\* ret > 0: the source delivers between 1 and sz - done bytes
ReadSome ==
  /\ rd.st = "busy"
  /\ pos < Len(stream)
  /\ \E ret \in 1..Min(rd.sz - rd.done, Len(stream) - pos) :
       /\ pos' = pos + ret
       /\ offset' = OffsetAfterRead(offset, ret)
       /\ rd' = [rd EXCEPT !.done = @ + ret,
                           !.buf = @ \o SubSeq(stream, pos + 1, pos + ret),
                           !.st = ReadLoop(rd.done + ret, rd.sz)]
  /\ UNCHANGED <<stream, charSigned, littleEndian, eof, indent, out, stack, pc, role, fst, vi,
                 len, dret, retval, status, errs, allocFails, tops>>

\* ret == 0: end of file
ReadEof ==
  /\ rd.st = "busy"
  /\ pos = Len(stream)
  /\ eof' = TRUE
  /\ rd' = [rd EXCEPT !.st = "fail"]
  /\ UNCHANGED <<stream, charSigned, littleEndian, pos, offset, indent, out, stack, pc, role,
                 fst, vi, len, dret, retval, status, errs, allocFails, tops>>

\* ret < 0: the read fails
ReadError ==
  /\ rd.st = "busy"
  /\ errs < MaxErrs
  /\ errs' = errs + 1
  /\ rd' = [rd EXCEPT !.st = "fail"]
  /\ UNCHANGED <<stream, charSigned, littleEndian, pos, offset, eof, indent, out, stack, pc,
                 role, fst, vi, len, dret, retval, status, allocFails, tops>>

\* eread has returned to its caller
Returned == rd.st \in {"ok", "fail"}

(***************************************************************************)
(* dump, lines 263-344.                                                    *)
(***************************************************************************)
\* dump returning false for every failed read of a tag
TagReadFailedAlways(e) == FALSE

\* line 266: the value dump returns when the read of the tag fails
TagReadFailed(e) == e

\* the tag just read
Tag == rd.buf[1]

\* the offset of the tag of a top-level value is recorded
TopsAfterTag == IF stack = <<>> THEN Append(tops, offset - 1) ELSE tops

\* line 266: if (! eread(ctx, &fst, 1)) return ctx->eof;
DumpNoTag ==
  /\ pc = "dump"
  /\ rd.st = "fail"
  /\ pc' = "ret"
  /\ retval' = TagReadFailed(eof)
  /\ rd' = NoRead
  /\ UNCHANGED <<stream, charSigned, littleEndian, pos, offset, eof, indent, out, stack, role,
                 fst, vi, len, dret, status, errs, allocFails, tops>>

\* lines 268-274, 342-343: nil, false, true and the fixints
DumpLiteral ==
  /\ pc = "dump"
  /\ rd.st = "ok"
  /\ Dispatch(Tag).kind \in {"nil", "false", "true", "fixpos", "fixneg"}
  /\ fst' = Tag
  /\ tops' = TopsAfterTag
  /\ out' = out \o DumpStart(indent, role) \o Literal(Tag) \o DumpStop(role)
  /\ pc' = "ret"
  /\ retval' = TRUE
  /\ rd' = NoRead
  /\ UNCHANGED <<stream, charSigned, littleEndian, pos, offset, eof, indent, stack, role, vi,
                 len, dret, status, errs, allocFails>>

\* lines 337-340: no branch matches
DumpBadTag ==
  /\ pc = "dump"
  /\ rd.st = "ok"
  /\ Dispatch(Tag).kind = "bad"
  /\ fst' = Tag
  /\ tops' = TopsAfterTag
  /\ out' = out \o DumpStart(indent, role)
  /\ pc' = "ret"
  /\ retval' = FALSE
  /\ rd' = NoRead
  /\ UNCHANGED <<stream, charSigned, littleEndian, pos, offset, eof, indent, stack, role, vi,
                 len, dret, status, errs, allocFails>>

\* the branches that start with read_varint: the fixed-width integers and
\* every length or count field (lines 113-117, first iteration)
DumpVarint ==
  /\ pc = "dump"
  /\ rd.st = "ok"
  /\ Dispatch(Tag).kind \in {"uint", "int", "str", "bin", "array", "map", "ext"}
  /\ fst' = Tag
  /\ tops' = TopsAfterTag
  /\ out' = out \o DumpStart(indent, role)
  /\ vi' = [n |-> Shl8(Zero64), cb |-> 0, lenlen |-> Dispatch(Tag).arg,
            sign |-> Dispatch(Tag).kind = "int", byte |-> 0]
  /\ rd' = EreadCall(1)
  /\ pc' = "varint"
  /\ UNCHANGED <<stream, charSigned, littleEndian, pos, offset, eof, indent, stack, role, len,
                 dret, retval, status, errs, allocFails>>

\* lines 291-294, 155-159 / 164-168
DumpFloat ==
  /\ pc = "dump"
  /\ rd.st = "ok"
  /\ Dispatch(Tag).kind = "float"
  /\ fst' = Tag
  /\ tops' = TopsAfterTag
  /\ out' = out \o DumpStart(indent, role)
  /\ rd' = EreadCall(Dispatch(Tag).arg)
  /\ pc' = "float"
  /\ UNCHANGED <<stream, charSigned, littleEndian, pos, offset, eof, indent, stack, role, vi,
                 len, dret, retval, status, errs, allocFails>>

\* lines 295-296: dump_data(ctx, true, fst & 0x1f)
DumpFixStr ==
  /\ pc = "dump"
  /\ rd.st = "ok"
  /\ Dispatch(Tag).kind = "fixstr"
  /\ fst' = Tag
  /\ tops' = TopsAfterTag
  /\ out' = out \o DumpStart(indent, role)
  /\ len' = Dispatch(Tag).arg
  /\ pc' = "malloc"
  /\ rd' = NoRead
  /\ UNCHANGED <<stream, charSigned, littleEndian, pos, offset, eof, indent, stack, role, vi,
                 dret, retval, status, errs, allocFails>>

\* lines 321-330, 250-251: dump_ext(ctx, 1 | 2 | 4 | 8 | 16)
DumpFixExt ==
  /\ pc = "dump"
  /\ rd.st = "ok"
  /\ Dispatch(Tag).kind = "fixext"
  /\ fst' = Tag
  /\ tops' = TopsAfterTag
  /\ out' = out \o DumpStart(indent, role)
  /\ len' = Dispatch(Tag).arg
  /\ rd' = EreadCall(1)
  /\ pc' = "exttype"
  /\ UNCHANGED <<stream, charSigned, littleEndian, pos, offset, eof, indent, stack, role, vi,
                 dret, retval, status, errs, allocFails>>

(***************************************************************************)
(* dump_array, dump_map: lines 203-239.                                    *)
(***************************************************************************)
Frame(k, nb, r, t) ==
  [kind |-> k, nb |-> nb, n |-> 0, half |-> 0, role |-> r, fst |-> t]

Top == stack[Len(stack)]
Pop == SubSeq(stack, 1, Len(stack) - 1)

Open(k) == IF k = "array" THEN "[\n" ELSE "{\n"
Close(k) == IF k = "array" THEN "]" ELSE "}"

\* lines 309-310, 315-316, 205-206 / 227-228: the in-tag count
DumpFixContainer ==
  /\ pc = "dump"
  /\ rd.st = "ok"
  /\ Dispatch(Tag).kind \in {"fixarray", "fixmap"}
  /\ LET k == IF Dispatch(Tag).kind = "fixarray" THEN "array" ELSE "map" IN
       /\ out' = out \o DumpStart(indent, role) \o <<Tok(Open(k), <<>>)>>
       /\ stack' = Append(stack, Frame(k, Dispatch(Tag).arg, role, Tag))
  /\ fst' = Tag
  /\ tops' = TopsAfterTag
  /\ indent' = indent + 1
  /\ pc' = "loop"
  /\ rd' = NoRead
  /\ UNCHANGED <<stream, charSigned, littleEndian, pos, offset, eof, role, vi, len, dret,
                 retval, status, errs, allocFails>>

\* a map that decodes the value of a pair first
RoleOfChildSwapped(f) ==
  IF f.kind = "array" THEN f.n
  ELSE IF f.half = 0 THEN ROLE_MAP_VALUE ELSE ROLE_MAP_KEY

\* the role of the next child: the index n converted to int, or the key
RoleOfChild(f) ==
  IF f.kind = "array" THEN f.n
  ELSE IF f.half = 0 THEN ROLE_MAP_KEY ELSE ROLE_MAP_VALUE

\* lines 208-209 / 230-231: n < nb_objs, call dump for the next element or key
LoopNext ==
  /\ pc = "loop"
  /\ Top.n < Top.nb
  /\ role' = RoleOfChild(Top)
  /\ fst' = NoTag
  /\ rd' = EreadCall(1)
  /\ pc' = "dump"
  /\ UNCHANGED <<stream, charSigned, littleEndian, pos, offset, eof, indent, out, stack, vi,
                 len, dret, retval, status, errs, allocFails, tops>>

\* a container that leaves the level as it is
UnindentForgotten(ind) == ind

\* lines 212 / 235: ctx->indent--
Unindent(ind) == ind - 1

\* lines 212-215 / 235-238, then 342-343 of the dump that called
LoopEnd ==
  /\ pc = "loop"
  /\ Top.n >= Top.nb
  /\ indent' = Unindent(indent)
  /\ out' = out \o DumpIndent(Unindent(indent)) \o <<Tok(Close(Top.kind), <<>>)>>
                \o DumpStop(Top.role)
  /\ role' = Top.role
  /\ fst' = Top.fst
  /\ stack' = Pop
  /\ pc' = "ret"
  /\ retval' = TRUE
  /\ UNCHANGED <<stream, charSigned, littleEndian, pos, offset, eof, rd, vi, len, dret,
                 status, errs, allocFails, tops>>

\* a loop that does not test what dump returned
ChildFailedIgnored(r) == FALSE

\* lines 209, 231, 232: what the loop does with a child that returned false
ChildFailed(r) == ~r

\* a nested dump returned false: the container and its dump return false
RetFail ==
  /\ pc = "ret"
  /\ stack # <<>>
  /\ ChildFailed(retval)
  /\ role' = Top.role
  /\ fst' = Top.fst
  /\ stack' = Pop
  /\ retval' = FALSE
  /\ UNCHANGED <<stream, charSigned, littleEndian, pos, offset, eof, indent, out, pc, rd, vi,
                 len, dret, status, errs, allocFails, tops>>

\* a loop that does not advance
NextIndexStuck(n) == n

\* lines 208 / 230: n++
NextIndex(n) == n + 1

\* line 208: an element returned true, n++
RetElement ==
  /\ pc = "ret"
  /\ stack # <<>>
  /\ ~ChildFailed(retval)
  /\ Top.kind = "array"
  /\ stack' = [stack EXCEPT ![Len(stack)].n = NextIndex(@)]
  /\ pc' = "loop"
  /\ UNCHANGED <<stream, charSigned, littleEndian, pos, offset, eof, indent, out, role, fst,
                 rd, vi, len, dret, retval, status, errs, allocFails, tops>>

\* lines 231-232: the key returned true, call dump for its value
RetKey ==
  /\ pc = "ret"
  /\ stack # <<>>
  /\ ~ChildFailed(retval)
  /\ Top.kind = "map"
  /\ Top.half = 0
  /\ stack' = [stack EXCEPT ![Len(stack)].half = 1]
  /\ role' = ROLE_MAP_VALUE
  /\ fst' = NoTag
  /\ rd' = EreadCall(1)
  /\ pc' = "dump"
  /\ UNCHANGED <<stream, charSigned, littleEndian, pos, offset, eof, indent, out, vi, len,
                 dret, retval, status, errs, allocFails, tops>>

\* lines 232, 230: the value returned true, n++
RetValue ==
  /\ pc = "ret"
  /\ stack # <<>>
  /\ ~ChildFailed(retval)
  /\ Top.kind = "map"
  /\ Top.half = 1
  /\ stack' = [stack EXCEPT ![Len(stack)].n = NextIndex(@), ![Len(stack)].half = 0]
  /\ pc' = "loop"
  /\ UNCHANGED <<stream, charSigned, littleEndian, pos, offset, eof, indent, out, role, fst,
                 rd, vi, len, dret, retval, status, errs, allocFails, tops>>

\* lines 370-372: the top-level dump returned
RetMain ==
  /\ pc = "ret"
  /\ stack = <<>>
  /\ IF retval
     THEN pc' = "main" /\ UNCHANGED status
     ELSE pc' = "done" /\ status' = "exit1"
  /\ UNCHANGED <<stream, charSigned, littleEndian, pos, offset, eof, indent, out, stack, role,
                 fst, rd, vi, len, dret, retval, errs, allocFails, tops>>

(***************************************************************************)
(* read_varint, lines 111-125, and its callers.                            *)
(***************************************************************************)
\* line 117: the read of a byte fails; every caller returns false, and so
\* does dump
VarintFail ==
  /\ pc = "varint"
  /\ rd.st = "fail"
  /\ pc' = "ret"
  /\ retval' = FALSE
  /\ rd' = NoRead
  /\ UNCHANGED <<stream, charSigned, littleEndian, pos, offset, eof, indent, out, stack, role,
                 fst, vi, len, dret, status, errs, allocFails, tops>>

\* lines 115-118: *n |= byte, cb++, and the next iteration's *n <<= 8
VarintMore ==
  /\ pc = "varint"
  /\ rd.st = "ok"
  /\ vi.cb + 1 < vi.lenlen
  /\ vi' = [vi EXCEPT !.n = Shl8(OrByte(vi.n, Tag)), !.cb = @ + 1, !.byte = Tag]
  /\ rd' = EreadCall(1)
  /\ UNCHANGED <<stream, charSigned, littleEndian, pos, offset, eof, indent, out, stack, pc,
                 role, fst, len, dret, retval, status, errs, allocFails, tops>>

\* the value read_varint stores in *n when its loop ends with this byte
VarintResult == SignExtend(OrByte(vi.n, Tag), vi.lenlen, vi.sign, Tag)

VarintLast == pc = "varint" /\ rd.st = "ok" /\ vi.cb + 1 = vi.lenlen

\* dump_varint, lines 136-141, then 342-343
VarintInt ==
  /\ VarintLast
  /\ Dispatch(fst).kind \in {"uint", "int"}
  /\ vi' = [vi EXCEPT !.n = VarintResult, !.cb = @ + 1, !.byte = Tag]
  /\ out' = out \o DumpVarintTok(VarintResult, vi.sign) \o DumpStop(role)
  /\ pc' = "ret"
  /\ retval' = TRUE
  /\ rd' = NoRead
  /\ UNCHANGED <<stream, charSigned, littleEndian, pos, offset, eof, indent, stack, role, fst,
                 len, dret, status, errs, allocFails, tops>>

\* dump_data_var, line 200: dump_data(ctx, is_str, len)
VarintDataLen ==
  /\ VarintLast
  /\ Dispatch(fst).kind \in {"str", "bin"}
  /\ vi' = [vi EXCEPT !.n = VarintResult, !.cb = @ + 1, !.byte = Tag]
  /\ len' = U64ToNat(VarintResult)
  /\ pc' = "malloc"
  /\ rd' = NoRead
  /\ UNCHANGED <<stream, charSigned, littleEndian, pos, offset, eof, indent, out, stack, role,
                 fst, dret, retval, status, errs, allocFails, tops>>

\* dump_array_var / dump_map_var, lines 222 / 245, 205-206 / 227-228
VarintCount ==
  /\ VarintLast
  /\ Dispatch(fst).kind \in {"array", "map"}
  /\ vi' = [vi EXCEPT !.n = VarintResult, !.cb = @ + 1, !.byte = Tag]
  /\ out' = out \o <<Tok(Open(Dispatch(fst).kind), <<>>)>>
  /\ stack' = Append(stack, Frame(Dispatch(fst).kind, U64ToNat(VarintResult),
                                  role, fst))
  /\ indent' = indent + 1
  /\ pc' = "loop"
  /\ rd' = NoRead
  /\ UNCHANGED <<stream, charSigned, littleEndian, pos, offset, eof, role, fst, len, dret,
                 retval, status, errs, allocFails, tops>>

\* dump_ext_var, line 260, then dump_ext, line 251
VarintExtLen ==
  /\ VarintLast
  /\ Dispatch(fst).kind = "ext"
  /\ vi' = [vi EXCEPT !.n = VarintResult, !.cb = @ + 1, !.byte = Tag]
  /\ len' = U64ToNat(VarintResult)
  /\ rd' = EreadCall(1)
  /\ pc' = "exttype"
  /\ UNCHANGED <<stream, charSigned, littleEndian, pos, offset, eof, indent, out, stack, role,
                 fst, dret, retval, status, errs, allocFails, tops>>

(***************************************************************************)
(* dump_float32 / dump_float64, lines 155-171.                             *)
(***************************************************************************)
Reverse(s) == [i \in 1..Len(s) |-> s[Len(s) + 1 - i]]

\* eread(ctx, &v, sizeof(v)) stores the bytes read at increasing addresses of
\* v, and no byte is moved afterwards: the IEEE-754 pattern of v, written
\* most significant byte first, is buf on a big-endian host and buf reversed
\* on a little-endian host.  printf("%g", v) prints the number of that
\* pattern.
FloatPattern(buf, le) == IF le THEN Reverse(buf) ELSE buf

FloatTok(buf, le) == <<Tok("%g", FloatPattern(buf, le))>>

FloatRead ==
  /\ pc = "float"
  /\ Returned
  /\ IF rd.st = "ok"
     THEN /\ out' = out \o FloatTok(rd.buf, littleEndian) \o DumpStop(role)
          /\ retval' = TRUE
     ELSE /\ retval' = FALSE
          /\ UNCHANGED out
  /\ pc' = "ret"
  /\ rd' = NoRead
  /\ UNCHANGED <<stream, charSigned, littleEndian, pos, offset, eof, indent, stack, role, fst,
                 vi, len, dret, status, errs, allocFails, tops>>

(***************************************************************************)
(* dump_ext, lines 248-255, and dump_data, lines 173-194.                  *)
(***************************************************************************)
\* lines 251-253
ExtType ==
  /\ pc = "exttype"
  /\ Returned
  /\ IF rd.st = "ok"
     THEN /\ out' = out \o <<Tok("Type%d:", <<Tag>>)>>
          /\ pc' = "malloc"
          /\ UNCHANGED retval
     ELSE /\ pc' = "ret"
          /\ retval' = FALSE
          /\ UNCHANGED out
  /\ rd' = NoRead
  /\ UNCHANGED <<stream, charSigned, littleEndian, pos, offset, eof, indent, stack, role, fst,
                 vi, len, dret, status, errs, allocFails, tops>>

\* what the caller of dump_data makes of its result r: dump_ext (lines
\* 253-254) drops it and returns true, the others (lines 296, 200) pass it on
DataCaller(t, r) == IF IsExt(t) THEN TRUE ELSE r

\* dump_data returned r after printing o: the rest of dump
AfterData(r, o) ==
  /\ dret' = r
  /\ retval' = DataCaller(fst, r)
  /\ out' = IF DataCaller(fst, r) THEN out \o o \o DumpStop(role) ELSE out \o o
  /\ pc' = "ret"

\* lines 175-179: malloc returns NULL
AllocFail ==
  /\ pc = "malloc"
  /\ allocFails < MaxAllocFails
  /\ allocFails' = allocFails + 1
  /\ AfterData(FALSE, <<>>)
  /\ UNCHANGED <<stream, charSigned, littleEndian, pos, offset, eof, indent, stack, role, fst,
                 rd, vi, len, status, errs, tops>>

\* lines 175, 180: malloc succeeds, eread(ctx, data, len)
AllocOk ==
  /\ pc = "malloc"
  /\ rd' = EreadCall(len)
  /\ pc' = "data"
  /\ UNCHANGED <<stream, charSigned, littleEndian, pos, offset, eof, indent, out, stack, role,
                 fst, vi, len, dret, retval, status, errs, allocFails, tops>>

\* dump_data not testing what eread returned
DataReadOkUnchecked(st) == TRUE

\* line 180: the value dump_data makes of eread's result
DataReadOk(st) == st = "ok"

\* lines 180-193
DataRead ==
  /\ pc = "data"
  /\ Returned
  /\ IF DataReadOk(rd.st)
     THEN AfterData(TRUE, DataPrinted(rd.buf, len, IsStr(fst), charSigned))
     ELSE AfterData(FALSE, <<>>)
  /\ UNCHANGED <<stream, charSigned, littleEndian, pos, offset, eof, indent, stack, role, fst,
                 rd, vi, len, status, errs, allocFails, tops>>

(***************************************************************************)
(* The program.                                                            *)
(***************************************************************************)
Next ==
  \/ MainLoop
  \/ ReadSome \/ ReadEof \/ ReadError
  \/ DumpNoTag \/ DumpLiteral \/ DumpBadTag \/ DumpVarint \/ DumpFloat
  \/ DumpFixStr \/ DumpFixExt \/ DumpFixContainer
  \/ LoopNext \/ LoopEnd
  \/ RetFail \/ RetElement \/ RetKey \/ RetValue \/ RetMain
  \/ VarintFail \/ VarintMore \/ VarintInt \/ VarintDataLen \/ VarintCount
  \/ VarintExtLen
  \/ FloatRead \/ ExtType
  \/ AllocFail \/ AllocOk \/ DataRead

Spec == Init /\ [][Next]_vars

Done == status # "running"

NoFaults == errs = 0 /\ allocFails = 0

(***************************************************************************)
(* The wire format, as the properties below refer to it: the kind and      *)
(* length scheme of every tag, and the extent of an encoded value.         *)
(***************************************************************************)
Pow2(i) == 2^i

Wire(t) ==
  IF t <= \h7f THEN Branch("fixpos", 0)
  ELSE IF t <= \h8f THEN Branch("fixmap", t - \h80)
  ELSE IF t <= \h9f THEN Branch("fixarray", t - \h90)
  ELSE IF t <= \hbf THEN Branch("fixstr", t - \ha0)
  ELSE IF t = \hc0 THEN Branch("nil", 0)
  ELSE IF t = \hc1 THEN Branch("bad", 0)
  ELSE IF t = \hc2 THEN Branch("false", 0)
  ELSE IF t = \hc3 THEN Branch("true", 0)
  ELSE IF t <= \hc6 THEN Branch("bin", Pow2(t - \hc4))
  ELSE IF t <= \hc9 THEN Branch("ext", Pow2(t - \hc7))
  ELSE IF t <= \hcb THEN Branch("float", 4 * Pow2(t - \hca))
  ELSE IF t <= \hcf THEN Branch("uint", Pow2(t - \hcc))
  ELSE IF t <= \hd3 THEN Branch("int", Pow2(t - \hd0))
  ELSE IF t <= \hd8 THEN Branch("fixext", Pow2(t - \hd4))
  ELSE IF t <= \hdb THEN Branch("str", Pow2(t - \hd9))
  ELSE IF t <= \hdd THEN Branch("array", 2 * Pow2(t - \hdc))
  ELSE IF t <= \hdf THEN Branch("map", 2 * Pow2(t - \hde))
  ELSE Branch("fixneg", 0)

\* an unsigned big-endian integer, saturating at SizeCap
RECURSIVE BigEndian(_, _)
BigEndian(bytes, acc) ==
  IF bytes = <<>> THEN acc
  ELSE IF acc > (SizeCap - Head(bytes)) \div 256 THEN SizeCap
  ELSE BigEndian(Tail(bytes), acc * 256 + Head(bytes))

\* the result of reading one value: r is "ok" (the value ends before index
\* nx), "trunc" (the stream ends inside it; what names the part cut and nx
\* is past the end) or "bad" (the byte at nx is no tag); cont tells whether
\* the failure is inside an array or map whose count was read.
RefOk(nx) == [r |-> "ok", nx |-> nx, what |-> "", cont |-> FALSE]
RefTrunc(s, w) == [r |-> "trunc", nx |-> Len(s) + 1, what |-> w, cont |-> FALSE]
RefBad(i) == [r |-> "bad", nx |-> i, what |-> "tag", cont |-> FALSE]

\* a payload of l bytes after the header that ends at index h
RefPayload(s, h, l, w) ==
  IF l <= Len(s) - h THEN RefOk(h + l + 1) ELSE RefTrunc(s, w)

RECURSIVE RefValue(_, _), RefItems(_, _, _, _)
RefValue(s, i) ==
  LET k == Wire(s[i]).kind
      a == Wire(s[i]).arg
      field == BigEndian(SubSeq(s, i + 1, i + a), 0)
  IN
  IF k \in {"nil", "false", "true", "fixpos", "fixneg"} THEN RefOk(i + 1)
  ELSE IF k = "bad" THEN RefBad(i)
  ELSE IF k \in {"uint", "int", "float"} THEN RefPayload(s, i, a, "scalar")
  ELSE IF k = "fixstr" THEN RefPayload(s, i, a, "str")
  ELSE IF k = "fixext" THEN
    IF i + 1 > Len(s) THEN RefTrunc(s, "exttype")
    ELSE RefPayload(s, i + 1, a, "ext")
  ELSE IF k = "fixarray" THEN RefItems(s, i + 1, a, 1)
  ELSE IF k = "fixmap" THEN RefItems(s, i + 1, a, 2)
  ELSE IF i + a > Len(s) THEN RefTrunc(s, "len")
  ELSE IF k \in {"str", "bin"} THEN RefPayload(s, i + a, field, k)
  ELSE IF k = "ext" THEN
    IF i + a + 1 > Len(s) THEN RefTrunc(s, "exttype")
    ELSE RefPayload(s, i + a + 1, field, "ext")
  ELSE IF k = "array" THEN RefItems(s, i + a + 1, field, 1)
  ELSE RefItems(s, i + a + 1, field, 2)

\* c elements (per = 1) or pairs (per = 2) from index i
RefItems(s, i, c, per) ==
  IF c = 0 THEN RefOk(i)
  ELSE IF i > Len(s) THEN [RefTrunc(s, "elem") EXCEPT !.cont = TRUE]
  ELSE LET v == RefValue(s, i) IN
       IF v.r # "ok" THEN [v EXCEPT !.cont = TRUE]
       ELSE IF per = 1 THEN RefItems(s, v.nx, c - 1, 1)
       ELSE IF v.nx > Len(s) THEN [RefTrunc(s, "elem") EXCEPT !.cont = TRUE]
       ELSE LET u == RefValue(s, v.nx) IN
            IF u.r # "ok" THEN [u EXCEPT !.cont = TRUE]
            ELSE RefItems(s, u.nx, c - 1, 2)

\* the whole stream: the offsets of the tags of its top-level values, and
\* how the first value that is not complete fails
RECURSIVE RefTop(_, _, _)
RefTop(s, i, starts) ==
  IF i > Len(s)
  THEN [r |-> "ok", nx |-> i, what |-> "", cont |-> FALSE, starts |-> starts]
  ELSE LET v == RefValue(s, i) IN
       IF v.r = "ok" THEN RefTop(s, v.nx, Append(starts, i - 1))
       ELSE [r |-> v.r, nx |-> v.nx, what |-> v.what, cont |-> v.cont,
             starts |-> Append(starts, i - 1)]

RefStream == RefTop(stream, 1, <<>>)

IsPrefix(a, b) == Len(a) <= Len(b) /\ SubSeq(b, 1, Len(a)) = a

\* the wire kind of the tag of the running dump, if it has read one
Kind == IF fst = NoTag THEN "none" ELSE Wire(fst).kind

\* number of tokens of out with a format in F
CountFmt(F) == Cardinality({i \in 1..Len(out) : out[i].fmt \in F})

\* the token printed just before the dump_stop of the value that returned
Body == out[Len(out) - 1]

(***************************************************************************)
(* Properties.                                                             *)
(***************************************************************************)
Opens == CountFmt({"[\n", "{\n"})
Closes == CountFmt({"]", "}"})

\* C1: end-of-stream inside an array or map whose count was read is fatal.
\* When the stream ends before all declared elements (or pairs) have been
\* read and no read or allocation fails, the run ends with status 1 and
\* with the bracket of that container still open; and a run that ends with
\* status 0 has read a stream of complete values only.
C1_EofInsideContainerIsFatal ==
  (Done /\ NoFaults) =>
     /\ (RefStream.r = "trunc" /\ RefStream.cont)
           => (status = "exit1" /\ Closes < Opens)
     /\ (status = "exit0" /\ RefStream.r = "trunc") => ~RefStream.cont

\* C2: a failure of the payload read of an extension value is a failure of
\* the value: the dump that decoded it returns false, and the run ends with
\* status 1, both when the stream ends inside the payload and when a read
\* or an allocation fails.
C2_ExtPayloadFailureSurfaces ==
  /\ (pc = "ret" /\ Kind \in {"fixext", "ext"} /\ ~dret) => ~retval
  /\ (Done /\ NoFaults /\ RefStream.r = "trunc" /\ RefStream.what = "ext")
        => status = "exit1"
  /\ (Done /\ ~NoFaults) => status = "exit1"

\* the formats dump_data prints a payload with
PayloadFmts == {"\"%.*s\"", "%02x"}

\* the payload read of the running dump_data ended at end-of-stream
ShortPayload ==
  /\ pc = "ret"
  /\ Kind \in {"fixstr", "str", "bin"}
  /\ rd.st = "fail" /\ rd.sz = len /\ rd.done < len
  /\ eof

\* C3: a string or binary value of declared length L >= 1 whose payload is
\* cut by the end of the stream fails: dump returns false, nothing of the
\* payload is printed, and (no read or allocation failing otherwise) the
\* run ends with status 1.
C3_ShortPayloadFails ==
  /\ ShortPayload =>
       /\ ~retval
       /\ ~dret
       /\ out # <<>> => out[Len(out)].fmt \notin PayloadFmts
  /\ (Done /\ NoFaults /\ RefStream.r = "trunc"
        /\ RefStream.what \in {"str", "bin"})
       => (status = "exit1" /\ eof /\ pos = Len(stream))

\* the case of the specification: length 4 declared, 2 bytes follow
C3_Witness ==
  /\ stream = <<\ha4, \h61, \h62>>
  /\ ShortPayload /\ rd.done = 2 /\ len = 4
  /\ out = <<>>

\* C4: a stream that is the concatenation of k >= 0 complete values is
\* decoded (no read or allocation failing) as exactly k top-level values in
\* stream order: the top-level values decoded so far always start where the
\* values of the stream start, and the run ends with status 0 with all k
\* decoded and the whole stream consumed; the empty stream prints nothing.
C4_ConcatenationDecoded ==
  (NoFaults /\ RefStream.r = "ok") =>
     /\ IsPrefix(tops, RefStream.starts)
     /\ status # "exit1"
     /\ Done => /\ status = "exit0"
                /\ tops = RefStream.starts
                /\ pos = Len(stream)
                /\ CountFmt({"\n"}) >= Len(tops)
     /\ (Done /\ stream = <<>>) => out = <<>>

\* the case of the specification: 0x01 0x02 prints 1 then 2
C4_Witness ==
  /\ stream = <<\h01, \h02>>
  /\ status = "exit0"
  /\ tops = <<0, 1>>
  /\ out = <<Tok("%d", <<1>>), Tok("\n", <<>>), Tok("%d", <<2>>), Tok("\n", <<>>)>>

\* the last w bytes the source delivered
LastBytes(w) == SubSeq(stream, pos - w + 1, pos)

\* the 64-bit two's-complement pattern of a big-endian signed integer
TwosComplement64(bytes) ==
  [i \in 1..(8 - Len(bytes)) |-> IF bytes[1] >= 128 THEN 255 ELSE 0] \o bytes

\* C5: a signed integer of width w (tags 0xd0..0xd3) is printed as the
\* two's-complement value of its w big-endian bytes widened to 64 bits:
\* negative exactly when the top bit of the first byte is set, all higher
\* bits then being 1.
C5_SignedIntsAreTwosComplement ==
  (pc = "ret" /\ retval /\ Kind = "int") =>
     Body = Tok("%PRId64", TwosComplement64(LastBytes(Wire(fst).arg)))

\* C6: a fixint is decoded from its tag alone: tag t in 0x00..0x7f prints
\* t, tag t in 0xe0..0xff prints t - 256, and the tag is the last byte read.
C6_FixintsDecodedFromTag ==
  (pc = "ret" /\ retval /\ Kind \in {"fixpos", "fixneg"}) =>
     /\ Body = Tok("%d", <<IF fst <= \h7f THEN fst ELSE fst - 256>>)
     /\ stream[pos] = fst

\* a dump that returns false reads and prints nothing more: its caller
\* returns false in turn, or the run exits with status 1
FailurePropagates ==
  (pc = "ret" /\ ~retval) =>
     /\ pos' = pos
     /\ out' = out
     /\ \/ pc' = "ret" /\ ~retval' /\ Len(stack') < Len(stack)
        \/ status' = "exit1" /\ stack = <<>>

\* C7: the tag 0xc1 is fatal at top level and at any depth: the dump that
\* reads it returns false, every enclosing dump returns false, no further
\* byte is read and the run exits with status 1.
C7_BadTagIsFatal ==
  /\ []((pc = "ret" /\ fst = \hc1) => ~retval)
  /\ [][FailurePropagates]_vars
  /\ []((NoFaults /\ RefStream.r = "bad") =>
          /\ pos <= RefStream.nx
          /\ status # "exit0"
          /\ Done => (status = "exit1" /\ pos = RefStream.nx /\ ~eof))

\* 0xc1 as the value of a key inside a map inside an array
C7_Witness ==
  /\ stream = <<\h92, \h81, \hc1>>
  /\ status = "exit1"
  /\ pos = 3
  /\ stack = <<>>
  /\ CountFmt({"]", "}"}) = 0

\* the state a tag's branch leaves agrees with the wire format's scheme
BranchState ==
  LET w == Wire(fst) IN
  /\ pc = "varint" =>
       /\ w.kind \in {"uint", "int", "str", "bin", "array", "map", "ext"}
       /\ vi.lenlen = w.arg
       /\ vi.sign = (w.kind = "int")
  /\ pc = "float" => (w.kind = "float" /\ rd.sz = w.arg)
  /\ pc = "exttype" =>
       (w.kind \in {"fixext", "ext"} /\ (w.kind = "fixext" => len = w.arg))
  /\ pc \in {"malloc", "data"} =>
       /\ w.kind \in {"fixstr", "str", "bin", "fixext", "ext"}
       /\ w.kind \in {"fixstr", "fixext"} => len = w.arg
  /\ \A i \in 1..Len(stack) :
       LET f == stack[i] IN
       /\ Wire(f.fst).kind \in
            (IF f.kind = "array" THEN {"fixarray", "array"} ELSE {"fixmap", "map"})
       /\ Wire(f.fst).kind \in {"fixarray", "fixmap"} => f.nb = Wire(f.fst).arg

\* C8: for each of the 256 tags, the first matching branch of the
\* dispatcher is the kind and length scheme the wire format assigns to it.
C8_DispatchFollowsWireFormat ==
  fst # NoTag => (Dispatch(fst) = Wire(fst) /\ BranchState)

\* fixext 16 reached its payload with length 16
C8_Witness == fst = \hd8 /\ pc = "data" /\ len = 16 /\ rd.sz = 16

\* C9: a string of declared length L is printed as its L payload bytes,
\* unchanged and in order, between double quotes.
C9_StringPrintedVerbatim ==
  (pc = "ret" /\ retval /\ Kind \in {"fixstr", "str"}) =>
     Body = Tok("\"%.*s\"", LastBytes(len))

\* L two-digit hex pairs separated by single spaces
RECURSIVE HexPairs(_)
HexPairs(bytes) ==
  IF bytes = <<>> THEN <<>>
  ELSE <<Tok("%02x", <<Head(bytes) \div 16, Head(bytes) % 16>>)>>
       \o (IF Len(bytes) > 1 THEN <<Tok(" ", <<>>)>> ELSE <<>>)
       \o HexPairs(Tail(bytes))

\* C10: a binary blob or extension payload of length L is printed as
\* exactly L two-digit hex pairs, in payload order, separated by single
\* spaces, whatever the byte values.
C10_HexPairsPrinted ==
  (pc = "ret" /\ retval /\ dret /\ Kind \in {"bin", "fixext", "ext"}) =>
     SubSeq(out, Len(out) - 2 * len + 1, Len(out) - 1) = HexPairs(LastBytes(len))

(***************************************************************************)
(* C11: the payload of a float32 / float64 is interpreted in wire order:   *)
(* whenever a float value has been decoded, the IEEE-754 pattern of the    *)
(* number printed is the 4 or 8 payload bytes with the first byte read as  *)
(* the most significant one, whatever the byte order of the host.          *)
(***************************************************************************)
C11_FloatPayloadIsBigEndian ==
  (pc = "ret" /\ retval /\ Kind = "float") =>
     Body = Tok("%g", LastBytes(Wire(fst).arg))

\* the length field of the data value whose tag is at index i of the stream
DataLenLen(t) == IF Wire(t).kind \in {"fixstr", "fixext"} THEN 0 ELSE Wire(t).arg
DataTypeLen(t) == IF Wire(t).kind \in {"fixext", "ext"} THEN 1 ELSE 0
DataLenAt(i) ==
  IF Wire(stream[i]).kind \in {"fixstr", "fixext"} THEN Wire(stream[i]).arg
  ELSE BigEndian(SubSeq(stream, i + 1, i + DataLenLen(stream[i])), 0)

\* the bytes read so far end with one whole encoding of a data value of tag
\* fst: its tag, its length field, its type byte if any, and its payload
DataEncodingConsumed ==
  LET i == pos - len - DataTypeLen(fst) - DataLenLen(fst) IN
  /\ i >= 1
  /\ stream[i] = fst
  /\ len = DataLenAt(i)

(***************************************************************************)
(* C12: a decode of a string, binary or extension value that returns       *)
(* success has consumed exactly its encoding: the tag, the length field    *)
(* (none, or 1, 2 or 4 bytes, unsigned, most significant byte first), the  *)
(* type byte of an extension, and as many payload bytes as the length      *)
(* says, so that the next byte read is the tag of the following value.     *)
(***************************************************************************)
C12_DataConsumesItsEncoding ==
  (pc = "ret" /\ retval /\ Kind \in {"fixstr", "str", "bin", "fixext", "ext"})
     => DataEncodingConsumed

(***************************************************************************)
(* C13: the end-of-stream flag is sticky.  Once a read has returned 0      *)
(* bytes the flag stays true in every later state; every read request made *)
(* afterwards fails at its entry, with no read of the source (the file     *)
(* position, the cursor and the count of failed reads stay as they are);   *)
(* and the top-level loop, when it next tests the flag, leaves with        *)
(* status 0 instead of starting a value.                                   *)
(***************************************************************************)
C13_EofIsSticky ==
  /\ [][eof => eof']_vars
  /\ [](eof => rd.st \in {"idle", "fail"})
  /\ [][eof => (pos' = pos /\ offset' = offset /\ errs' = errs)]_vars
  /\ [][(eof /\ pc = "main") => (pc' = "done" /\ status' = "exit0"
                                   /\ tops' = tops /\ rd' = rd)]_vars

\* the second element of an array whose first tag read hit the end of the
\* stream: its read request has failed without a read
C13_Witness ==
  /\ stream = <<\h92>>
  /\ eof
  /\ pc = "dump"
  /\ rd = [sz |-> 1, done |-> 0, buf |-> <<>>, st |-> "fail"]
  /\ stack # <<>>
  /\ Top.n = 1
  /\ pos = 1

(***************************************************************************)
(* C14: the cursor offset counts the bytes delivered.  In every reachable  *)
(* state it equals the number of bytes the source has delivered; no step   *)
(* decreases it; a read that delivers bytes advances it by their count,    *)
(* whether or not the request it belongs to later fails; a read that       *)
(* returns 0 or an error leaves it unchanged.                              *)
(***************************************************************************)
C14_OffsetCountsBytesDelivered ==
  /\ [](offset = pos)
  /\ [][offset' >= offset]_vars
  /\ [][offset' - offset = Len(rd'.buf) - Len(rd.buf)
          \/ (rd'.buf = <<>> /\ offset' = offset)]_vars
  /\ [][(eof' # eof \/ errs' # errs) => offset' = offset]_vars

\* a request of 2 bytes that failed after a partial read of 1 byte: the
\* cursor has kept the byte
C14_Witness ==
  /\ rd.st = "fail"
  /\ rd.sz = 2
  /\ rd.done = 1
  /\ offset = 3
  /\ pos = 3
  /\ eof

(***************************************************************************)
(* The program as a function of its input: dump and the functions it calls *)
(* with every eread served by the source in one piece, no read error and   *)
(* no malloc failure.  c is the state of the run, [p, e, out]: the file    *)
(* position, ctx->eof and the output so far.                               *)
(***************************************************************************)
\* eread, lines 65-84, on a source that delivers all it has at once
Eread(s, c, sz) ==
  IF c.e THEN [ok |-> FALSE, p |-> c.p, e |-> TRUE, buf |-> <<>>]
  ELSE IF sz <= Len(s) - c.p
  THEN [ok |-> TRUE, p |-> c.p + sz, e |-> FALSE,
        buf |-> SubSeq(s, c.p + 1, c.p + sz)]
  ELSE [ok |-> FALSE, p |-> Len(s), e |-> TRUE, buf |-> <<>>]

\* read_varint, lines 114-119: the loop over the bytes of the field
RECURSIVE VarintLoop(_, _)
VarintLoop(bytes, n) ==
  IF bytes = <<>> THEN n
  ELSE VarintLoop(Tail(bytes), OrByte(Shl8(n), Head(bytes)))

\* read_varint, lines 111-125
ReadVarint(bytes, sign) ==
  SignExtend(VarintLoop(bytes, Zero64), Len(bytes), sign, bytes[Len(bytes)])

\* what a function returns: its result and the state it leaves
Ret(r, p, e, o) == [ret |-> r, p |-> p, e |-> e, out |-> o]

\* dump_data, lines 173-194, then lines 342-343 when the caller goes on
DumpData(s, c, t, l, r) ==
  LET d == Eread(s, c, l) IN
  IF d.ok
  THEN Ret(TRUE, d.p, d.e, c.out \o DataPrinted(d.buf, l, IsStr(t), charSigned)
                                 \o DumpStop(r))
  ELSE Ret(DataCaller(t, FALSE), d.p, d.e,
           IF DataCaller(t, FALSE) THEN c.out \o DumpStop(r) ELSE c.out)

\* dump_ext, lines 248-255
DumpExt(s, c, t, l, r) ==
  LET ty == Eread(s, c, 1) IN
  IF ~ty.ok THEN Ret(FALSE, ty.p, ty.e, c.out)
  ELSE DumpData(s, [p |-> ty.p, e |-> ty.e,
                    out |-> c.out \o <<Tok("Type%d:", <<ty.buf[1]>>)>>], t, l, r)

RECURSIVE Dump(_, _, _, _), DumpItems(_, _, _, _, _, _)
\* dump, lines 263-344
Dump(s, c, ind, r) ==
  LET tg == Eread(s, c, 1) IN
  IF ~tg.ok THEN Ret(TagReadFailed(tg.e), tg.p, tg.e, c.out)
  ELSE
  LET t == tg.buf[1]
      k == Dispatch(t).kind
      a == Dispatch(t).arg
      o == c.out \o DumpStart(ind, r)
      c1 == [p |-> tg.p, e |-> tg.e, out |-> o]
      \* the length, count or integer field, and the state after it
      f == Eread(s, c1, a)
      c2 == [p |-> f.p, e |-> f.e, out |-> o]
      kk == IF k \in {"fixarray", "array"} THEN "array" ELSE "map"
  IN
  IF k \in {"nil", "false", "true", "fixpos", "fixneg"}
  THEN Ret(TRUE, tg.p, tg.e, o \o Literal(t) \o DumpStop(r))
  ELSE IF k = "bad" THEN Ret(FALSE, tg.p, tg.e, o)
  ELSE IF k = "fixstr" THEN DumpData(s, c1, t, a, r)
  ELSE IF k = "fixext" THEN DumpExt(s, c1, t, a, r)
  ELSE IF k \in {"fixarray", "fixmap"}
  THEN DumpItems(s, [c1 EXCEPT !.out = @ \o <<Tok(Open(kk), <<>>)>>],
                 ind, r, Frame(kk, a, r, t), 0)
  ELSE IF ~f.ok THEN Ret(FALSE, f.p, f.e, o)
  ELSE IF k = "float"
  THEN Ret(TRUE, f.p, f.e, o \o FloatTok(f.buf, littleEndian) \o DumpStop(r))
  ELSE IF k \in {"uint", "int"}
  THEN Ret(TRUE, f.p, f.e,
           o \o DumpVarintTok(ReadVarint(f.buf, k = "int"), k = "int")
             \o DumpStop(r))
  ELSE IF k \in {"str", "bin"}
  THEN DumpData(s, c2, t, U64ToNat(ReadVarint(f.buf, FALSE)), r)
  ELSE IF k = "ext"
  THEN DumpExt(s, c2, t, U64ToNat(ReadVarint(f.buf, FALSE)), r)
  ELSE DumpItems(s, [c2 EXCEPT !.out = @ \o <<Tok(Open(kk), <<>>)>>],
                 ind, r, Frame(kk, U64ToNat(ReadVarint(f.buf, FALSE)), r, t), 0)

\* dump_array, lines 207-215, and dump_map, lines 229-238, from index n on,
\* then lines 342-343 of the dump that called; ind is the level of the
\* container
DumpItems(s, c, ind, r, fr, n) ==
  IF n >= fr.nb
  THEN Ret(TRUE, c.p, c.e,
           c.out \o DumpIndent(Unindent(ind + 1)) \o <<Tok(Close(fr.kind), <<>>)>>
                 \o DumpStop(r))
  ELSE
  LET first == Dump(s, c, ind + 1, RoleOfChild([fr EXCEPT !.n = n])) IN
  IF ChildFailed(first.ret) THEN Ret(FALSE, first.p, first.e, first.out)
  ELSE IF fr.kind = "array" THEN DumpItems(s, first, ind, r, fr, n + 1)
  ELSE
  LET second == Dump(s, first, ind + 1, ROLE_MAP_VALUE) IN
  IF ChildFailed(second.ret) THEN Ret(FALSE, second.p, second.e, second.out)
  ELSE DumpItems(s, second, ind, r, fr, n + 1)

\* main, lines 369-375
RECURSIVE Main(_, _)
Main(s, c) ==
  IF c.e THEN [status |-> "exit0", out |-> c.out]
  ELSE LET v == Dump(s, c, 0, ROLE_NONE) IN
       IF v.ret THEN Main(s, v) ELSE [status |-> "exit1", out |-> v.out]

\* the run of the program on its input
Run == Main(stream, [p |-> 0, e |-> FALSE, out |-> <<>>])

(***************************************************************************)
(* C15: partial reads are invisible.  A read request for n bytes succeeds  *)
(* only when the n bytes that followed the file position at its start have *)
(* been stored, in order, whatever pieces the source delivered them in;    *)
(* and when no read or allocation fails, the output and the exit status of *)
(* the run are those of the run whose reads are each served in one piece:  *)
(* a function of the stream alone, the same for every chunking.            *)
(***************************************************************************)
C15_ChunkingIsInvisible ==
  /\ rd.st \in {"busy", "ok", "fail"} =>
       /\ rd.done = Len(rd.buf)
       /\ rd.done <= pos
       /\ rd.buf = SubSeq(stream, pos - rd.done + 1, pos)
  /\ rd.st = "ok" => rd.done = rd.sz
  /\ (Done /\ NoFaults) => (out = Run.out /\ status = Run.status)

\* a request of 8 bytes of which the source has delivered 3 so far
C15_Witness ==
  /\ stream = <<\hcb, \h3f, \hf0, 0, 0, 0, 0, 0, 0>>
  /\ pc = "float"
  /\ rd = [sz |-> 8, done |-> 3, buf |-> <<\h3f, \hf0, 0>>, st |-> "busy"]
  /\ pos = 4

\* a dump that returned false is on its way to exit(1)
Failing == (pc = "ret" /\ ~retval) \/ status = "exit1"

\* the token at index k of out starts a line indented to level d
IndentedAt(k, d) ==
  /\ k > TAB * d
  /\ \A j \in 1..(TAB * d) : out[k - j].fmt = " "
  /\ k - TAB * d - 1 >= 1 => out[k - TAB * d - 1].fmt # " "

(***************************************************************************)
(* C16: indentation is balanced.  The level is 0 whenever the top-level    *)
(* loop tests its condition or starts a value; unless a dump has returned  *)
(* false, the level equals the number of arrays and maps that are open, so *)
(* that the children of a container opened at level d are decoded at level *)
(* d + 1 and a dump that returns success leaves the level it was entered   *)
(* with; an array element that returned success was printed at the level   *)
(* of its open containers, and the closing bracket of a container is       *)
(* printed at the level the container was opened at.                       *)
(***************************************************************************)
C16_IndentBalanced ==
  /\ pc = "main" => indent = 0
  /\ (pc = "dump" /\ stack = <<>>) => indent = 0
  /\ ~Failing => indent = Len(stack)
  /\ (pc = "ret" /\ retval /\ role >= 0
        /\ Kind \in {"nil", "false", "true", "fixpos", "fixneg"}) =>
       /\ out[Len(out) - 2].fmt = "[%d]: "
       /\ IndentedAt(Len(out) - 2, Len(stack))
  /\ (pc = "ret" /\ retval /\ Kind \in {"fixarray", "array", "fixmap", "map"}) =>
       /\ out[Len(out) - 1].fmt \in {"]", "}"}
       /\ IndentedAt(Len(out) - 1, Len(stack))

\* the map inside the array 92 81 a1 61 01 c3 has returned: its bracket is
\* printed one level in, and the array goes on at that level
C16_Witness ==
  /\ stream = <<\h92, \h81, \ha1, \h61, \h01, \hc3>>
  /\ pc = "ret"
  /\ retval
  /\ Kind = "fixmap"
  /\ role = 0
  /\ Len(stack) = 1
  /\ indent = 1
  /\ out[Len(out) - 1].fmt = "}"
  /\ ~eof

\* the running dump is a child of a map
InMap == stack # <<>> /\ Top.kind = "map" /\ pc # "loop"

Scalars == {"nil", "false", "true", "fixpos", "fixneg"}

(***************************************************************************)
(* C17: a map of N pairs is decoded as 2N nested values in stream order,   *)
(* key first.  Inside a map the dump that runs has role map-key when no    *)
(* key of the current pair has returned yet and role map-value otherwise;  *)
(* a key that returned success is followed by ": " and, when it is a       *)
(* scalar, was printed after the indentation of its level; a value is      *)
(* followed by a newline and, when it is a scalar, was printed right after *)
(* the ": " of its key; the dump of a value starts only in the step after  *)
(* its key returned success, with no byte read in between; a key that      *)
(* returned false makes the map return false at once, and no byte is read  *)
(* afterwards; the loop ends after exactly N pairs; and a top-level map    *)
(* that returned success before the end of the stream, every read and      *)
(* allocation having succeeded, has consumed exactly its encoding: tag,    *)
(* count and 2N encoded values.                                            *)
(***************************************************************************)
C17_MapPairsInOrder ==
  /\ [](InMap => role = (IF Top.half = 0 THEN ROLE_MAP_KEY ELSE ROLE_MAP_VALUE))
  /\ []((pc = "ret" /\ retval /\ fst # NoTag /\ role = ROLE_MAP_KEY) =>
          /\ out[Len(out)].fmt = ": "
          /\ Kind \in Scalars => IndentedAt(Len(out) - 1, Len(stack)))
  /\ []((pc = "ret" /\ retval /\ fst # NoTag /\ role = ROLE_MAP_VALUE) =>
          /\ out[Len(out)].fmt = "\n"
          /\ Kind \in Scalars => out[Len(out) - 2].fmt = ": ")
  /\ [][(pc # "dump" /\ pc' = "dump" /\ role' = ROLE_MAP_VALUE) =>
          (pc = "ret" /\ retval /\ role = ROLE_MAP_KEY /\ InMap
             /\ Top.half = 0 /\ pos' = pos /\ out' = out)]_vars
  /\ [][(pc = "ret" /\ ~retval /\ InMap) =>
          (pc' = "ret" /\ ~retval' /\ stack' = Pop /\ pos' = pos)]_vars
  /\ [][Failing => (pos' = pos /\ rd' = rd)]_vars
  /\ []((pc = "loop" /\ Top.kind = "map") => (Top.n <= Top.nb /\ Top.half = 0))
  /\ []((pc = "ret" /\ retval /\ stack = <<>> /\ Kind \in {"fixmap", "map"}
           /\ ~eof /\ NoFaults) =>
          RefValue(stream, tops[Len(tops)] + 1) = RefOk(pos + 1))

\* the value of the pair of the map in 92 81 a1 61 01 c3 has returned
C17_Witness ==
  /\ stream = <<\h92, \h81, \ha1, \h61, \h01, \hc3>>
  /\ pc = "ret"
  /\ retval
  /\ InMap
  /\ Top.half = 1
  /\ role = ROLE_MAP_VALUE
  /\ fst = 1
  /\ out[Len(out) - 2].fmt = ": "
  /\ out[Len(out) - 3].fmt = "\"%.*s\""

(***************************************************************************)
(* Termination.  The program is sequential: whenever it has not exited,    *)
(* its next step is taken (a read in progress returns, by the assumption   *)
(* that every read eventually returns).                                    *)
(***************************************************************************)
FairSpec == Spec /\ WF_vars(Next)

(***************************************************************************)
(* C18: every run terminates.  On every stream, and with every chunking,   *)
(* read error and allocation failure, the run eventually exits, with       *)
(* status 0 or with status 1, and it exits with no array or map loop still *)
(* running: every element loop has ended, also those that met the end of   *)
(* the stream before their declared count was reached.                     *)
(***************************************************************************)
C18_Terminates ==
  /\ <>Done
  /\ [](Done => (status \in {"exit0", "exit1"} /\ pc = "done" /\ stack = <<>>))

\* the loop of an array of 2 elements cut after its count has run to its end
C18_Witness ==
  /\ stream = <<\hdc, 0, 2>>
  /\ status = "exit0"
  /\ eof
  /\ out[Len(out) - 1].fmt = "]"

====
